---- MODULE Spec2Model ----
(***************************************************************************)
(* py-chess-bot: the undo/redo history, the SAN parser, the move validator *)
(* the solo-mode switch, the immutable game and board operations, the      *)
(* sound manager and the GUI and dual-mode game loops.                     *)
(*                                                                         *)
(* Spec          the GameHistory object driven by an arbitrary caller      *)
(* ParseSpec     parse_san_move applied to every bounded input             *)
(* ValidateSpec  validate_move over tokens, positions and oracle outcomes  *)
(* SoloSpec      two SoloModeState instances                               *)
(* GameSpec      make_move / apply_move over game and board objects        *)
(* PromoSpec     parse_san_move over promotion tokens                      *)
(* SoundSpec     SoundManager: set_enabled and play_move_sound             *)
(* GuiSpec       the main loop of run_gui_game, one iteration per step     *)
(* DualSpec      the two threads of run_dual_mode_game and their lock      *)
(* DualFairSpec  DualSpec under fair scheduling                            *)
(***************************************************************************)
EXTENDS Integers, Sequences, FiniteSets, TLC

VARIABLES
    positions,      \* GameHistory.positions: list of object references
    current_index,  \* GameHistory.current_index
    heap,           \* the object store: reference -> content, or Free
    live,           \* the caller's live position object (a reference)
    got,            \* the object the caller last obtained from get_current()
    op,             \* the operation performed last
    ret,            \* what it returned
    discarded,      \* number of snapshots the last add_position truncated
    phase,          \* call pattern so far: "add", "undo", "redo" or "mixed"
    added,          \* snapshots appended while phase was "add", in order
    nUndo,          \* successful undos in the current pattern
    nRedo,          \* successful redos in the current pattern
    input,          \* argument of parse_san_move / validate_move
    result,         \* its outcome
    board_state,    \* validate_move's second argument
    oracle,         \* what the rules library does with that call
    consulted,      \* whether validate_move reached the rules library
    solo,           \* SoloModeState._solo_mode_enabled, per instance
    toggles,        \* number of toggle() calls, per instance
    objs,           \* game, board and list objects: reference -> content
    held,           \* the game or board the caller passed to the last call
    sound,          \* the SoundManager object and what it was asked to play
    gui,            \* run_gui_game: its locals and its place in the main loop
    dual            \* run_dual_mode_game: shared_state and the two threads

histVars  == <<positions, current_index, heap, live, got, op, ret, discarded>>
ghostVars == <<phase, added, nUndo, nRedo>>
parseVars == <<input, result>>
valVars   == <<board_state, oracle, consulted>>
soloVars  == <<solo, toggles>>
gameVars  == <<objs, held>>
uiVars    == <<sound, gui, dual>>
extVars   == <<valVars, soloVars, gameVars, uiVars>>
vars      == <<positions, current_index, heap, live, got, op, ret, discarded,
               phase, added, nUndo, nRedo, input, result,
               board_state, oracle, consulted, solo, toggles, objs, held,
               sound, gui, dual>>

----------------------------------------------------------------------------
(* Bounds *)

\* longest history the caller builds
MaxHist == 3
\* position contents are 0..MaxVal
MaxVal == 1

Values == 0..MaxVal
\* references: the log's snapshots, the caller's live object, the object it
\* got from get_current(), and the copy being made
Ids    == 1..(MaxHist + 2)
Free   == -1
None   == [tag |-> "None"]
Bool(b) == [tag |-> "bool", val |-> b]
Ref(r)  == [tag |-> "ref", val |-> r]

----------------------------------------------------------------------------
(* The object store *)

Range(s) == {s[i] : i \in 1..Len(s)}

Min(S) == CHOOSE x \in S : \A y \in S : x <= y

Roots(ps, lv, gt) == Range(ps) \cup {lv} \cup (IF gt = 0 THEN {} ELSE {gt})

\* reference counting: an object no list and no caller variable refers to is freed
Collect(h, roots) == [i \in Ids |-> IF i \in roots THEN h[i] ELSE Free]

\* a fresh object
NewId(h) == Min({i \in Ids : h[i] = Free})

\* copy.deepcopy(game_state): a new object with equal content
deepcopy(h, r) == [h EXCEPT ![NewId(h)] = h[r]]

----------------------------------------------------------------------------
(* Values of the variables a specification does not use *)

ValIdle  == board_state = None /\ oracle = "unused" /\ consulted = FALSE
SoloIdle == solo = << >> /\ toggles = << >>
GameIdle == objs = << >> /\ held = << >>
UiIdle   == sound = << >> /\ gui = << >> /\ dual = << >>

----------------------------------------------------------------------------
(* GameHistory *)

\* __init__: empty log, cursor -1; the caller holds one live position
Init ==
    /\ positions = << >>
    /\ current_index = -1
    /\ \E v \in Values : heap = [i \in Ids |-> IF i = 1 THEN v ELSE Free]
    /\ live = 1
    /\ got = 0
    /\ op = "init"
    /\ ret = None
    /\ discarded = 0
    /\ phase = "add"
    /\ added = << >>
    /\ nUndo = 0
    /\ nRedo = 0
    /\ input = None
    /\ result = None
    /\ ValIdle
    /\ SoloIdle
    /\ GameIdle
    /\ UiIdle

\* faulty variant: the forward history is kept
Truncated_KeepAll(ps, ci) == ps

\* self.positions[:self.current_index + 1]
Truncated(ps, ci) == SubSeq(ps, 1, ci + 1)

add_position(game_state) ==
    /\ current_index + 2 <= MaxHist
    /\ LET kept == Truncated(positions, current_index)
           h1   == Collect(heap, Roots(kept, live, got))
           new  == NewId(h1)
       IN /\ positions' = Append(kept, new)
          /\ heap' = deepcopy(h1, game_state)
          /\ current_index' = Len(kept) + 1 - 1
          /\ discarded' = Len(positions) - Len(kept)
          /\ IF phase = "add"
                THEN /\ added' = Append(added, new)
                     /\ UNCHANGED <<phase, nUndo, nRedo>>
                ELSE /\ phase' = "mixed"
                     /\ added' = << >>
                     /\ nUndo' = 0
                     /\ nRedo' = 0
    /\ op' = "add_position"
    /\ ret' = None
    /\ UNCHANGED <<live, got, parseVars, extVars>>

\* faulty variant: undo pops the newest snapshot off the log
undo_Pop ==
    /\ IF current_index > 0
          THEN /\ current_index' = current_index - 1
               /\ positions' = SubSeq(positions, 1, Len(positions) - 1)
               /\ heap' = Collect(heap, Roots(positions', live, got))
               /\ ret' = Bool(TRUE)
               /\ phase' = "mixed"
               /\ added' = << >>
               /\ nUndo' = 0
               /\ nRedo' = 0
          ELSE /\ ret' = Bool(FALSE)
               /\ UNCHANGED <<positions, heap, current_index, ghostVars>>
    /\ op' = "undo"
    /\ discarded' = 0
    /\ UNCHANGED <<live, got, parseVars, extVars>>

\* faulty variant: undo allowed at the first snapshot
undo_guard_AtZero == current_index >= 0

\* if self.current_index > 0
undo_guard == current_index > 0

undo ==
    /\ IF undo_guard
          THEN /\ current_index' = current_index - 1
               /\ ret' = Bool(TRUE)
               /\ IF phase \in {"add", "undo"}
                     THEN /\ phase' = "undo"
                          /\ nUndo' = nUndo + 1
                          /\ UNCHANGED <<added, nRedo>>
                     ELSE /\ phase' = "mixed"
                          /\ added' = << >>
                          /\ nUndo' = 0
                          /\ nRedo' = 0
          ELSE /\ ret' = Bool(FALSE)
               /\ UNCHANGED <<current_index, ghostVars>>
    /\ op' = "undo"
    /\ discarded' = 0
    /\ UNCHANGED <<positions, heap, live, got, parseVars, extVars>>

\* faulty variant: redo allowed at the last snapshot
redo_guard_AtEnd == current_index < Len(positions)

\* if self.current_index < len(self.positions) - 1
redo_guard == current_index < Len(positions) - 1

redo ==
    /\ IF redo_guard
          THEN /\ current_index' = current_index + 1
               /\ ret' = Bool(TRUE)
               /\ IF phase \in {"undo", "redo"}
                     THEN /\ phase' = "redo"
                          /\ nRedo' = nRedo + 1
                          /\ UNCHANGED <<added, nUndo>>
                     ELSE /\ phase' = "mixed"
                          /\ added' = << >>
                          /\ nUndo' = 0
                          /\ nRedo' = 0
          ELSE /\ ret' = Bool(FALSE)
               /\ UNCHANGED <<current_index, ghostVars>>
    /\ op' = "redo"
    /\ discarded' = 0
    /\ UNCHANGED <<positions, heap, live, got, parseVars, extVars>>

\* faulty variant: the newest snapshot whatever the cursor
get_current_value_Last ==
    IF Len(positions) > 0 THEN Ref(positions[Len(positions)]) ELSE None

\* the value get_current returns: the stored object itself, or None
get_current_value ==
    IF 0 <= current_index /\ current_index < Len(positions)
       THEN Ref(positions[current_index + 1])
       ELSE None

get_current ==
    /\ ret' = get_current_value
    /\ got' = IF get_current_value.tag = "ref" THEN get_current_value.val ELSE 0
    /\ heap' = Collect(heap, Roots(positions, live, got'))
    /\ op' = "get_current"
    /\ discarded' = 0
    /\ UNCHANGED <<positions, current_index, live, ghostVars, parseVars, extVars>>

\* faulty variant: reports an undo at the first snapshot
can_undo_value_AtZero == current_index >= 0

can_undo_value == current_index > 0

can_undo ==
    /\ ret' = Bool(can_undo_value)
    /\ op' = "can_undo"
    /\ discarded' = 0
    /\ UNCHANGED <<positions, current_index, heap, live, got, ghostVars, parseVars, extVars>>

can_redo_value == current_index < Len(positions) - 1

can_redo ==
    /\ ret' = Bool(can_redo_value)
    /\ op' = "can_redo"
    /\ discarded' = 0
    /\ UNCHANGED <<positions, current_index, heap, live, got, ghostVars, parseVars, extVars>>

----------------------------------------------------------------------------
(* The caller *)

\* the caller moves on to a new position object (make_move's new_game)
CallerNewPosition(v) ==
    /\ LET h1 == Collect(heap, Roots(positions, 0, got))
       IN /\ live' = NewId(h1)
          /\ heap' = [h1 EXCEPT ![NewId(h1)] = v]
    /\ op' = "caller_new"
    /\ ret' = None
    /\ discarded' = 0
    /\ UNCHANGED <<positions, current_index, got, ghostVars, parseVars, extVars>>

\* the caller writes into an object it holds
CallerMutate(r, v) ==
    /\ r \in {live, got} \ {0}
    /\ heap[r] # v
    /\ heap' = [heap EXCEPT ![r] = v]
    /\ op' = "caller_mutate"
    /\ ret' = None
    /\ discarded' = 0
    /\ UNCHANGED <<positions, current_index, live, got, ghostVars, parseVars, extVars>>

Next ==
    \/ add_position(live)
    \/ undo
    \/ redo
    \/ get_current
    \/ can_undo
    \/ can_redo
    \/ \E v \in Values : CallerNewPosition(v)
    \/ \E r \in Ids, v \in Values : CallerMutate(r, v)

Spec == Init /\ [][Next]_vars

----------------------------------------------------------------------------
(* Properties of the history *)

\* what the log returns for every index
LogContents == [i \in 1..Len(positions) |-> heap[positions[i]]]

\* C1: add_position, in any reachable state, discards every snapshot beyond
\* the cursor and appends the new one: the length becomes the old
\* current_index + 2, the cursor is the last index, can_redo() is false and
\* get_current() is the snapshot just added, a copy of the caller's object;
\* the snapshots up to the old cursor are kept as they were.
C1_AddTruncatesAndAppends ==
    [][op' = "add_position" =>
          /\ Len(positions') = current_index + 2
          /\ current_index' = Len(positions') - 1
          /\ can_redo_value' = FALSE
          /\ get_current_value' = Ref(positions'[Len(positions')])
          /\ positions'[Len(positions')] \notin
                {positions[i] : i \in 1..(current_index + 1)} \cup {live, got}
          /\ heap'[positions'[Len(positions')]] = heap[live]
          /\ \A i \in 1..(current_index + 1) :
                /\ positions'[i] = positions[i]
                /\ heap'[positions'[i]] = heap[positions[i]]
    ]_vars

\* an add_position that followed undos and dropped the redo branch
C1_Witness ==
    /\ op = "add_position"
    /\ discarded > 0
    /\ current_index = Len(positions) - 1

\* C2: -1 <= current_index < len(positions) in every reachable state; the
\* cursor is -1 exactly when the log is empty, and it is 0 right after the
\* first add_position.
C2_CursorInRange ==
    /\ -1 <= current_index
    /\ current_index < Len(positions)
    /\ (current_index = -1) <=> (Len(positions) = 0)
    /\ (op = "add_position" /\ phase = "add" /\ Len(added) = 1) => current_index = 0

\* the cursor undone back to the first snapshot of a full log
C2_Witness ==
    /\ op = "undo"
    /\ ret = Bool(TRUE)
    /\ current_index = 0
    /\ Len(positions) = MaxHist

\* C3: undo() returns true and decrements the cursor by one when
\* current_index > 0 and otherwise returns false and changes nothing; redo()
\* returns true and increments by one when current_index < length - 1 and
\* otherwise returns false and changes nothing; neither raises.
C3_UndoRedoTotal ==
    [][/\ op' = "undo" =>
             IF current_index > 0
                THEN /\ ret' = Bool(TRUE)
                     /\ current_index' = current_index - 1
                ELSE /\ ret' = Bool(FALSE)
                     /\ UNCHANGED <<positions, current_index, heap>>
       /\ op' = "redo" =>
             IF current_index < Len(positions) - 1
                THEN /\ ret' = Bool(TRUE)
                     /\ current_index' = current_index + 1
                ELSE /\ ret' = Bool(FALSE)
                     /\ UNCHANGED <<positions, current_index, heap>>
    ]_vars

\* an undo refused at the first snapshot of a log that holds several
C3_Witness ==
    /\ op = "undo"
    /\ ret = Bool(FALSE)
    /\ current_index = 0
    /\ Len(positions) > 1

\* C4: can_undo() is true exactly when the undo() that follows at once
\* returns true, can_redo() exactly when the redo() that follows at once
\* returns true; the queries change nothing, and both are false on an empty
\* log.
C4_QueriesAgree ==
    [][/\ op' \in {"can_undo", "can_redo"} =>
             /\ UNCHANGED <<positions, current_index, heap, live, got>>
             /\ ret'.tag = "bool"
             /\ Len(positions) = 0 => ret' = Bool(FALSE)
       /\ (op = "can_undo" /\ op' = "undo") => ret' = ret
       /\ (op = "can_redo" /\ op' = "redo") => ret' = ret
    ]_vars

\* can_undo() answering true in the middle of a log, where can_redo() would too
C4_Witness ==
    /\ op = "can_undo"
    /\ ret = Bool(TRUE)
    /\ current_index > 0
    /\ current_index < Len(positions) - 1

\* C5: get_current() returns None on an empty log and otherwise the snapshot
\* at the cursor: after n appends, u successful undos and then r successful
\* redos it is the snapshot of append number n - u + r (counted from 1); a
\* redo right after a successful undo succeeds and puts the cursor back.
C5_CurrentIsAtCursor ==
    [][/\ op' = "get_current" =>
             /\ Len(positions) = 0 => ret' = None
             /\ (phase # "mixed" /\ Len(added) > 0) =>
                    ret' = Ref(added[Len(added) - nUndo + nRedo])
       /\ (op = "undo" /\ ret = Bool(TRUE) /\ op' = "redo") =>
             /\ ret' = Bool(TRUE)
             /\ current_index' = current_index + 1
             /\ get_current_value' = Ref(positions[current_index + 2])
    ]_vars

\* three appends, two undos, one redo, then get_current()
C5_Witness ==
    /\ op = "get_current"
    /\ phase = "redo"
    /\ Len(added) = 3
    /\ nUndo = 2
    /\ nRedo = 1
    /\ ret = Ref(added[2])

\* C6: no mutation the caller makes to an object it passed to add_position
\* or obtained from get_current() changes what the log returns for any index.
C6_NoAliasing ==
    [][op' = "caller_mutate" => LogContents' = LogContents]_vars

----------------------------------------------------------------------------
(* parse_san_move: strings are sequences of characters *)

\* longest token given to the parser
MaxTokenLen == 5

\* the characters tokens are drawn from: a file, a rank, two piece letters
\* (one of them a promotion piece), the capture, check, mate and promotion
\* marks, the castling characters and a line feed
Alphabet == {"e", "4", "N", "K", "x", "+", "#", "=", "O", "-", "\n"}

StrInput(chars) == [type |-> "str", chars |-> chars]
NoneInput       == [type |-> "NoneType"]
\* an argument that is neither a string nor None
IntInput(v)     == [type |-> "int", val |-> v]

Pending == [pending |-> TRUE]

\* a Python exception leaving the function
Raised(e) == [raised |-> e]

\* result[key] = value
SetKey(res, key, value) == (key :> value) @@ res

\* return {"valid": False, "error": ...}
Invalid(msg) == [valid |-> FALSE, error |-> msg]

\* characters str.strip() removes (those a token can be written with here)
Whitespace == {" ", "\t", "\n", "\r"}

Files == {"a", "b", "c", "d", "e", "f", "g", "h"}
Ranks == {"1", "2", "3", "4", "5", "6", "7", "8"}

RECURSIVE lstrip(_)
lstrip(s) ==
    IF s # << >> /\ Head(s) \in Whitespace THEN lstrip(Tail(s)) ELSE s

RECURSIVE rstrip(_)
rstrip(s) ==
    IF s # << >> /\ s[Len(s)] \in Whitespace
       THEN rstrip(SubSeq(s, 1, Len(s) - 1))
       ELSE s

\* san_notation.strip()
strip(s) == rstrip(lstrip(s))

\* san_notation.endswith(c)
endswith(s, c) == s # << >> /\ s[Len(s)] = c

\* san_notation[:-1]
DropLast(s) == SubSeq(s, 1, Len(s) - 1)

\* san_notation.split(sep): the parts between the separators
RECURSIVE split(_, _)
split(s, sep) ==
    IF \A i \in 1..Len(s) : s[i] # sep
       THEN <<s>>
       ELSE LET k == CHOOSE i \in 1..Len(s) :
                        s[i] = sep /\ \A j \in 1..(i - 1) : s[j] # sep
            IN <<SubSeq(s, 1, k - 1)>> \o split(SubSeq(s, k + 1, Len(s)), sep)

\* re.match(r'^[a-h][1-8]$', destination): '$' matches at the end of the
\* string and also just before a line feed that ends it
destination_matches(d) ==
    /\ Len(d) \in {2, 3}
    /\ d[1] \in Files
    /\ d[2] \in Ranks
    /\ Len(d) = 3 => d[3] = "\n"

\* piece_names of the promotion branch
promotion_names == [Q |-> "queen", R |-> "rook", B |-> "bishop", N |-> "knight"]

\* piece_names of the piece branch
piece_names ==
    [K |-> "king", Q |-> "queen", R |-> "rook", B |-> "bishop", N |-> "knight"]

\* re.search(r'=([QRBN])$', san_notation): the index of '=' in the match,
\* 0 when there is none
promotion_match(s) ==
    LET n == Len(s)
    IN IF n >= 3 /\ s[n - 2] = "=" /\ s[n - 1] \in {"Q", "R", "B", "N"}
             /\ s[n] = "\n"
          THEN n - 2
          ELSE IF n >= 2 /\ s[n - 1] = "=" /\ s[n] \in {"Q", "R", "B", "N"}
                  THEN n - 1
                  ELSE 0

\* faulty variant: every single character that is no piece letter is taken
\* for a pawn's file
parse_piece_AnyFile(res, piece_part) ==
    IF piece_part = << >>
       THEN SetKey(res, "piece", "pawn")
       ELSE IF Len(piece_part) = 1 /\ piece_part[1] \in {"K", "Q", "R", "B", "N"}
               THEN SetKey(res, "piece", piece_names[piece_part[1]])
               ELSE IF Len(piece_part) = 1
                       THEN SetKey(res, "piece", "pawn")
                       ELSE Invalid(<<"Invalid piece notation: ", piece_part>>)

\* "Determine piece type"
parse_piece(res, piece_part) ==
    IF piece_part = << >>
       THEN SetKey(res, "piece", "pawn")
       ELSE IF Len(piece_part) = 1 /\ piece_part[1] \in {"K", "Q", "R", "B", "N"}
               THEN SetKey(res, "piece", piece_names[piece_part[1]])
               ELSE IF Len(piece_part) = 1 /\ piece_part[1] \in Files
                       THEN SetKey(res, "piece", "pawn")
                       ELSE Invalid(<<"Invalid piece notation: ", piece_part>>)

\* faulty variant: the destination is validated but not stored
store_destination_Dropped(res, destination) == res

\* result["destination"] = destination
store_destination(res, destination) == SetKey(res, "destination", destination)

\* "Validate destination square"
parse_destination(res, piece_part, destination) ==
    IF ~destination_matches(destination)
       THEN Invalid(<<"Invalid destination square: ", destination>>)
       ELSE parse_piece(store_destination(res, destination), piece_part)

\* faulty variant: the number of parts is not checked
capture_parts_bad_Unchecked(parts) == FALSE

\* if len(parts) != 2
capture_parts_bad(parts) == Len(parts) # 2

\* "Check for capture"
parse_capture(res, s) ==
    IF \E i \in 1..Len(s) : s[i] = "x"
       THEN LET parts == split(s, "x")
            IN IF capture_parts_bad(parts)
                  THEN Invalid(<<"Invalid capture notation: ", s \o <<"x">>>>)
                  ELSE IF Len(parts) # 2
                          \* piece_part, destination = parts
                          THEN Raised("ValueError")
                          ELSE parse_destination(SetKey(res, "capture", TRUE),
                                                 parts[1], parts[2])
       ELSE parse_destination(
                res,
                IF Len(s) > 2 THEN SubSeq(s, 1, Len(s) - 2) ELSE << >>,
                IF Len(s) > 2 THEN SubSeq(s, Len(s) - 1, Len(s)) ELSE s)

\* "Handle pawn promotion"
parse_promotion(res, s) ==
    LET m == promotion_match(s)
    IN IF m # 0
          THEN parse_capture(SetKey(res, "promotion", promotion_names[s[m + 1]]),
                             SubSeq(s, 1, m - 1))
          ELSE parse_capture(res, s)

\* "Handle castling"
parse_castling(res, s) ==
    IF s = <<"O", "-", "O">>
       THEN SetKey(res, "castling", "kingside")
       ELSE IF s = <<"O", "-", "O", "-", "O">>
               THEN SetKey(res, "castling", "queenside")
               ELSE parse_promotion(res, s)

\* faulty variant: a '+' left after the '#' is stripped as well
parse_decorations_Both(s) ==
    IF endswith(s, "#")
       THEN IF endswith(DropLast(s), "+")
               THEN parse_castling(
                        SetKey(SetKey([valid |-> TRUE], "checkmate", TRUE),
                               "check", TRUE),
                        DropLast(DropLast(s)))
               ELSE parse_castling(SetKey([valid |-> TRUE], "checkmate", TRUE),
                                   DropLast(s))
       ELSE IF endswith(s, "+")
               THEN parse_castling(SetKey([valid |-> TRUE], "check", TRUE), DropLast(s))
               ELSE parse_castling([valid |-> TRUE], s)

\* "Remove check/checkmate symbols and store them"
parse_decorations(s) ==
    IF endswith(s, "#")
       THEN parse_castling(SetKey([valid |-> TRUE], "checkmate", TRUE), DropLast(s))
       ELSE IF endswith(s, "+")
               THEN parse_castling(SetKey([valid |-> TRUE], "check", TRUE), DropLast(s))
               ELSE parse_castling([valid |-> TRUE], s)

\* not san_notation: None, the empty string and 0 are false
is_falsy(x) ==
    \/ x.type = "NoneType"
    \/ x.type = "str" /\ x.chars = << >>
    \/ x.type = "int" /\ x.val = 0

\* faulty variant: the type of the argument is not looked at
isinstance_str_Unchecked(x) == TRUE

\* isinstance(san_notation, str)
isinstance_str(x) == x.type = "str"

parse_san_move(san_notation) ==
    IF is_falsy(san_notation) \/ ~isinstance_str(san_notation)
       THEN Invalid(<<"Invalid input">>)
       ELSE IF san_notation.type # "str"
               \* san_notation.strip() on an object that has no strip
               THEN Raised("AttributeError")
               ELSE IF strip(san_notation.chars) = << >>
                       THEN Invalid(<<"Empty notation">>)
                       ELSE parse_decorations(strip(san_notation.chars))

\* the non-string arguments: None, a zero and a non-zero number
NonStrInputs == {NoneInput, IntInput(0), IntInput(5)}

\* the argument: a non-string, or any string of at most MaxTokenLen characters
ParseInit ==
    /\ \/ input \in NonStrInputs
       \/ \E n \in 0..MaxTokenLen : \E t \in [1..n -> Alphabet] : input = StrInput(t)
    /\ result = Pending
    /\ positions = << >>
    /\ current_index = -1
    /\ heap = [i \in Ids |-> Free]
    /\ live = 0
    /\ got = 0
    /\ op = "init"
    /\ ret = None
    /\ discarded = 0
    /\ phase = "add"
    /\ added = << >>
    /\ nUndo = 0
    /\ nRedo = 0
    /\ ValIdle
    /\ SoloIdle
    /\ GameIdle
    /\ UiIdle

ParseCall ==
    /\ result = Pending
    /\ result' = parse_san_move(input)
    /\ UNCHANGED <<input, histVars, ghostVars, extVars>>

ParseNext == ParseCall

ParseSpec == ParseInit /\ [][ParseNext]_vars

----------------------------------------------------------------------------
(* Properties of the parser *)

Returned == result # Pending
IsValid  == Returned /\ "valid" \in DOMAIN result /\ result.valid = TRUE
Has(key) == key \in DOMAIN result

PieceKinds == {"pawn", "knight", "bishop", "rook", "queen", "king"}

\* C7: whenever parse_san_move returns valid=true and no castling, the
\* destination is exactly two characters, a file letter a-h and a rank
\* digit 1-8.
C7_DestinationIsSquare ==
    (IsValid /\ ~Has("castling")) =>
        /\ Has("destination")
        /\ Len(result.destination) = 2
        /\ result.destination[1] \in Files
        /\ result.destination[2] \in Ranks

\* C8: a successful result is exactly one of: a normal move with a
\* destination and no castling; a kingside castle; a queenside castle; and
\* a castle carries no destination, capture or promotion.
C8_ExactlyOneShape ==
    IsValid =>
        \/ Has("destination") /\ ~Has("castling")
        \/ /\ Has("castling")
           /\ result.castling \in {"kingside", "queenside"}
           /\ ~Has("destination")
           /\ ~Has("capture")
           /\ ~Has("promotion")

\* a queenside castle: a castling key and no destination
C8_Witness ==
    /\ IsValid
    /\ input = StrInput(<<"O", "-", "O", "-", "O">>)
    /\ result.castling = "queenside"

\* C9: every successful result carries a piece kind among pawn, knight,
\* bishop, rook, queen, king, the castling tokens included.
C9_PieceKindAlways ==
    IsValid => Has("piece") /\ result.piece \in PieceKinds

\* C10: for every string input parse_san_move returns, without raising,
\* either valid=true or valid=false with a non-empty error message.
C10_NeverRaises ==
    (Returned /\ input.type = "str") =>
        /\ ~Has("raised")
        /\ Has("valid")
        /\ result.valid \in BOOLEAN
        /\ result.valid = FALSE =>
              /\ Has("error")
              /\ Len(result.error) >= 1
              /\ result.error[1] # ""

\* a token with two capture marks, rejected with a message
C10_Witness ==
    /\ Returned
    /\ input = StrInput(<<"e", "x", "x", "4">>)
    /\ result.valid = FALSE
    /\ result.error[1] = "Invalid capture notation: "

\* C11 (as stated): given a non-string input such as None the parser raises
\* instead of returning a valid=false result.
C11_NonStringRaises ==
    (Returned /\ input.type # "str") => Has("raised")

\* C11 (amended): given a non-string input (None, a number) the parser does
\* not raise: it returns valid=false with the error "Invalid input".
C11_NonStringRejected ==
    (Returned /\ input.type # "str") =>
        /\ ~Has("raised")
        /\ result = [valid |-> FALSE, error |-> <<"Invalid input">>]

\* None given to the parser and turned down
C11_Witness ==
    /\ Returned
    /\ input = NoneInput
    /\ result.valid = FALSE

----------------------------------------------------------------------------
(* validate_move: the parser followed by the rules library (python-chess) *)

\* longest token given to the validator
MaxValTokenLen == 4

\* board_state: None, a well-formed FEN string, a malformed one, or an
\* object that is no string at all
NoPosition   == [kind |-> "None"]
GoodFen      == [kind |-> "fen", wellformed |-> TRUE]
BadFen       == [kind |-> "fen", wellformed |-> FALSE]
NotAFen      == [kind |-> "object"]
BoardStates  == {NoPosition, GoodFen, BadFen, NotAFen}

\* what chess.Board(board_state) and board.parse_san(san_notation) can do:
\* Board raises ValueError on a malformed FEN and AttributeError on a
\* non-string; on a position parse_san returns a move or raises ValueError
\* (illegal, ambiguous or unreadable move)
OracleOutcomes(bs) ==
    IF bs = BadFen
       THEN {[at |-> "Board", exc |-> "ValueError"]}
       ELSE IF bs = NotAFen
               THEN {[at |-> "Board", exc |-> "AttributeError"]}
               ELSE {[at |-> "parse_san", exc |-> "none"],
                     [at |-> "parse_san", exc |-> "ValueError"]}

\* the python-chess Move object parse_san returns
MoveObject(san) == [move |-> san.chars]

\* faulty variant: the syntax verdict is ignored
syntax_rejected_Never(r) == FALSE

\* if not result["valid"]
syntax_rejected(r) == ~r.valid

\* if board_state is None
position_missing(bs) == bs = NoPosition

\* faulty variant: the move handle is not attached
legal_result_NoHandle(r, move) == SetKey(r, "legal", TRUE)

\* result["legal"] = True; result["move_object"] = move
legal_result(r, move) == SetKey(SetKey(r, "legal", TRUE), "move_object", move)

\* faulty variant: a fresh dict, the parsed fields are lost
illegal_result_Fresh(r, san) ==
    [valid |-> TRUE, legal |-> FALSE,
     error |-> <<"Move '", san.chars, "' is not legal in current position">>]

\* except ValueError: legal False and the not-legal message
illegal_result(r, san) ==
    SetKey(SetKey(r, "legal", FALSE), "error",
           <<"Move '", san.chars, "' is not legal in current position">>)

\* except Exception as e: legal False and the board-validation message
board_error_result(r, e) ==
    SetKey(SetKey(r, "legal", FALSE), "error", <<"Board validation error: ", e>>)

\* whether validate_move gets as far as the rules library
reaches_oracle(san_notation, bs) ==
    LET r == parse_san_move(san_notation)
    IN /\ "raised" \notin DOMAIN r
       /\ ~syntax_rejected(r)
       /\ ~position_missing(bs)

validate_move(san_notation, bs, orc) ==
    LET r == parse_san_move(san_notation)
    IN IF "raised" \in DOMAIN r
          THEN r
          ELSE IF syntax_rejected(r)
                  THEN r
                  ELSE IF position_missing(bs)
                          THEN r
                          ELSE IF orc.exc = "none"
                                  THEN legal_result(r, MoveObject(san_notation))
                                  ELSE IF orc.exc = "ValueError"
                                          THEN illegal_result(r, san_notation)
                                          ELSE board_error_result(r, orc.exc)

HistIdle ==
    /\ positions = << >>
    /\ current_index = -1
    /\ heap = [i \in Ids |-> Free]
    /\ live = 0
    /\ got = 0
    /\ op = "init"
    /\ ret = None
    /\ discarded = 0
    /\ phase = "add"
    /\ added = << >>
    /\ nUndo = 0
    /\ nRedo = 0

\* the arguments, and the behaviour of the rules library for them
ValidateInit ==
    /\ \/ input \in NonStrInputs
       \/ \E n \in 0..MaxValTokenLen : \E t \in [1..n -> Alphabet] : input = StrInput(t)
    /\ board_state \in BoardStates
    /\ oracle \in OracleOutcomes(board_state)
    /\ consulted = FALSE
    /\ result = Pending
    /\ HistIdle
    /\ SoloIdle
    /\ GameIdle
    /\ UiIdle

ValidateCall ==
    /\ result = Pending
    /\ result' = validate_move(input, board_state, oracle)
    /\ consulted' = reaches_oracle(input, board_state)
    /\ UNCHANGED <<input, board_state, oracle, histVars, ghostVars, soloVars,
                   gameVars, uiVars>>

ValidateNext == ValidateCall

ValidateSpec == ValidateInit /\ [][ValidateNext]_vars

----------------------------------------------------------------------------
(* Properties of the validator *)

\* the dict without some of its keys
Without(r, keys) == [k \in DOMAIN r \ keys |-> r[k]]

\* C12: when no position is supplied, or the token is syntactically invalid
\* (position or not), validate_move returns exactly what parse_san_move
\* returns for the token, with no legal and no move_object, and the rules
\* library is not consulted.
C12_SyntaxOnly ==
    (Returned /\ (board_state = NoPosition \/ ~IsValid)) =>
        /\ result = parse_san_move(input)
        /\ ~Has("legal")
        /\ ~Has("move_object")
        /\ consulted = FALSE

\* an invalid token with a position supplied
C12_Witness ==
    /\ Returned
    /\ board_state = GoodFen
    /\ input = StrInput(<<"K", "4">>)
    /\ result.valid = FALSE
    /\ ~Has("legal")

\* C13 (as stated): the result has a legal field if and only if a position
\* was supplied, and a move_object if and only if legal is true.
C13_LegalIffPosition ==
    Returned =>
        /\ Has("legal") <=> board_state # NoPosition
        /\ Has("move_object") <=> (Has("legal") /\ result.legal = TRUE)

\* C13 (amended): the result has a legal field if and only if a position
\* was supplied and the token is syntactically valid, and a move_object if
\* and only if legal is true.
C13_LegalIffPositionAndValid ==
    Returned =>
        /\ Has("legal") <=> (board_state # NoPosition /\ IsValid)
        /\ Has("move_object") <=> (Has("legal") /\ result.legal = TRUE)

\* a legal move with its handle
C13_Witness ==
    /\ Returned
    /\ board_state = GoodFen
    /\ input = StrInput(<<"e", "4">>)
    /\ Has("legal")
    /\ result.legal = TRUE
    /\ result.move_object = [move |-> <<"e", "4">>]

\* C14: a token the parser accepts and the rules library rejects in the
\* supplied position gives valid=true, legal=false, no move_object and the
\* error "Move '<token>' is not legal in current position", with the parsed
\* fields kept.
C14_IllegalInPosition ==
    (Returned /\ IsValid /\ board_state = GoodFen /\ oracle.exc = "ValueError") =>
        /\ result.valid = TRUE
        /\ Has("legal") /\ result.legal = FALSE
        /\ ~Has("move_object")
        /\ Has("error")
        /\ result.error = <<"Move '", input.chars, "' is not legal in current position">>
        /\ Without(result, {"legal", "error"}) = parse_san_move(input)

\* Ke4 refused by the rules library
C14_Witness ==
    /\ Returned
    /\ input = StrInput(<<"K", "e", "4">>)
    /\ board_state = GoodFen
    /\ oracle.exc = "ValueError"
    /\ result.piece = "king"
    /\ result.legal = FALSE

\* C15: when the rules library fails on the supplied position itself (a
\* malformed FEN raises ValueError) the result is legal=false with an error
\* of the form "Board validation error: <detail>".
C15_BoardErrorMessage ==
    (Returned /\ IsValid /\ oracle.at = "Board") =>
        /\ Has("legal") /\ result.legal = FALSE
        /\ Has("error")
        /\ result.error[1] = "Board validation error: "

----------------------------------------------------------------------------
(* SoloModeState *)

\* number of SoloModeState objects
NumSolo == 2
\* most toggle() calls on one object
MaxToggles == 4

SoloIds == 1..NumSolo

\* a return value, with the object the method was called on
SoloRet(self, v) == [tag |-> "bool", val |-> v, self |-> self]

\* __init__ of every object: self._solo_mode_enabled = False
SoloInit ==
    /\ solo = [i \in SoloIds |-> FALSE]
    /\ toggles = [i \in SoloIds |-> 0]
    /\ positions = << >>
    /\ current_index = -1
    /\ heap = [i \in Ids |-> Free]
    /\ live = 0
    /\ got = 0
    /\ op = "init"
    /\ ret = None
    /\ discarded = 0
    /\ phase = "add"
    /\ added = << >>
    /\ nUndo = 0
    /\ nRedo = 0
    /\ input = None
    /\ result = None
    /\ ValIdle
    /\ GameIdle
    /\ UiIdle

soloFrame == <<positions, current_index, heap, live, got, discarded,
               ghostVars, parseVars, valVars, gameVars, uiVars>>

\* faulty variant: toggle only ever switches solo mode on
toggled_SetTrue(enabled) == TRUE

\* not self._solo_mode_enabled
toggled(enabled) == ~enabled

toggle(self) ==
    /\ toggles[self] < MaxToggles
    /\ solo' = [solo EXCEPT ![self] = toggled(solo[self])]
    /\ toggles' = [toggles EXCEPT ![self] = toggles[self] + 1]
    /\ op' = "toggle"
    /\ ret' = SoloRet(self, TRUE)
    /\ UNCHANGED soloFrame

is_solo_enabled_value(self) == solo[self]

is_solo_enabled(self) ==
    /\ op' = "is_solo_enabled"
    /\ ret' = SoloRet(self, is_solo_enabled_value(self))
    /\ UNCHANGED <<solo, toggles, soloFrame>>

should_use_ai_value(self) == ~solo[self]

should_use_ai(self) ==
    /\ op' = "should_use_ai"
    /\ ret' = SoloRet(self, should_use_ai_value(self))
    /\ UNCHANGED <<solo, toggles, soloFrame>>

SoloNext ==
    \E self \in SoloIds :
        \/ toggle(self)
        \/ is_solo_enabled(self)
        \/ should_use_ai(self)

SoloSpec == SoloInit /\ [][SoloNext]_vars

\* C17: should_use_ai() is the negation of is_solo_enabled(); a fresh state
\* has solo disabled; toggle() returns true and flips the mode, so after n
\* toggles of an object its solo mode is on exactly when n is odd, whatever
\* was toggled on the other objects.
C17_SoloToggle ==
    /\ \A i \in SoloIds :
          /\ should_use_ai_value(i) = ~is_solo_enabled_value(i)
          /\ is_solo_enabled_value(i) = (toggles[i] % 2 = 1)
    /\ op = "toggle" => ret.val = TRUE
    /\ op = "is_solo_enabled" => ret.val = (toggles[ret.self] % 2 = 1)
    /\ op = "should_use_ai" => ret.val = (toggles[ret.self] % 2 = 0)

\* one object toggled three times, the other twice, the first just asked
C17_Witness ==
    /\ op = "is_solo_enabled"
    /\ ret = SoloRet(1, TRUE)
    /\ toggles[1] = 3
    /\ toggles[2] = 2
    /\ solo[2] = FALSE

----------------------------------------------------------------------------
(* More properties of the history *)

\* C18: undo() and redo(), whatever they return, leave the stored sequence
\* of snapshots, its length and the snapshots' contents as they were;
\* add_position is the only operation that changes the length.
C18_OnlyAddChangesLength ==
    [][/\ op' \in {"undo", "redo"} =>
             /\ positions' = positions
             /\ LogContents' = LogContents
       /\ Len(positions') # Len(positions) => op' = "add_position"
    ]_vars

\* a redo back to the end of a full log
C18_Witness ==
    /\ op = "redo"
    /\ ret = Bool(TRUE)
    /\ Len(positions) = MaxHist
    /\ current_index = MaxHist - 1

----------------------------------------------------------------------------
(* More properties of the parser *)

\* the token as written, without the surrounding whitespace
Token == strip(input.chars)

Decorations == {"+", "#"}

\* the result says valid=false
Rejected == Returned /\ Has("valid") /\ result.valid = FALSE

\* C19: at most one trailing decoration is stripped, '#' tested before '+':
\* a valid result never has both check and checkmate, a token ending in two
\* decorations is rejected, and 'O-O' and 'O-O+' are both a kingside castle,
\* the second with check=true.
C19_OneDecoration ==
    (Returned /\ input.type = "str") =>
        /\ IsValid => ~(Has("check") /\ Has("checkmate"))
        /\ IsValid => (Has("checkmate") <=> endswith(Token, "#"))
        /\ IsValid => (Has("check") <=> endswith(Token, "+"))
        /\ (/\ Len(Token) >= 2
            /\ Token[Len(Token)] \in Decorations
            /\ Token[Len(Token) - 1] \in Decorations) => Rejected
        /\ Token \in {<<"O", "-", "O">>, <<"O", "-", "O", "+">>} =>
               /\ IsValid
               /\ Has("castling")
               /\ result.castling = "kingside"
               /\ Has("check") <=> Token = <<"O", "-", "O", "+">>
               /\ Has("check") => result.check = TRUE

\* 'O-O+' has been parsed: a kingside castle with check
C19_Witness ==
    /\ input = StrInput(<<"O", "-", "O", "+">>)
    /\ IsValid
    /\ Has("castling")
    /\ result.castling = "kingside"
    /\ Has("check")
    /\ result.check = TRUE

\* san_notation when "Check for capture" is reached: the token without its
\* decoration and without its promotion suffix
CoreToken ==
    LET t == IF endswith(Token, "#") \/ endswith(Token, "+")
                THEN DropLast(Token)
                ELSE Token
        m == promotion_match(t)
    IN IF m # 0 THEN SubSeq(t, 1, m - 1) ELSE t

HasCapture == \E i \in 1..Len(CoreToken) : CoreToken[i] = "x"

\* C20: when the token, after decoration and promotion stripping, contains
\* an 'x', it is accepted only if splitting on 'x' gives exactly two
\* non-empty parts; any other split, an empty piece part or an empty
\* destination included, gives valid=false.
C20_CaptureTwoNonEmptyParts ==
    (Returned /\ input.type = "str" /\ Token # << >> /\ HasCapture) =>
        LET parts == split(CoreToken, "x")
        IN (~(Len(parts) = 2 /\ parts[1] # << >> /\ parts[2] # << >>))
               => Rejected

----------------------------------------------------------------------------
(* make_move and apply_move: game dicts, boards and lists are objects *)

\* most game dicts created, by create_game and make_move together
MaxGames == 3

\* a game is a dict, a board and a list; one more board is the result of a
\* direct call of apply_move
ObjIds == 1..(3 * MaxGames + 1)

FreeObj == [kind |-> "free"]

\* the SAN the rules library writes for moves: a pawn move, a castle and a
\* knight move that names the knight's file
LibrarySans ==
    {StrInput(<<"e", "4">>), StrInput(<<"O", "-", "O">>),
     StrInput(<<"N", "b", "d", "2">>)}

\* the SAN arguments: those and a malformed token
GameSans == LibrarySans \cup {StrInput(<<"e", "e">>)}

\* a FEN with black to move in full move 2
BlackFen == [kind |-> "fen", wellformed |-> TRUE, turn |-> "b", fullmove |-> 2]

\* the position argument of create_game
GamePositions == {NoPosition, BlackFen}

\* what the rules library does with the token on the board's position,
\* when validate_move gets that far
GameOracle(san_move) ==
    IF reaches_oracle(san_move, GoodFen)
       THEN OracleOutcomes(GoodFen)
       ELSE {[at |-> "unused", exc |-> "unused"]}

\* whether board.push(move_object) raises, when there is a move to push
PushOutcomes(orc) == IF orc.exc = "none" THEN {"ok", "raises"} ELSE {"unused"}

\* the reference of the next object constructed
NewObj(O) ==
    CHOOSE i \in ObjIds : O[i] = FreeObj /\ \A j \in 1..(i - 1) : O[j] # FreeObj

\* chess.Board() / chess.Board(fen): the side to move at the start, the full
\* move number of the start and the moves pushed since
BoardObj(start, fullmove, stack) ==
    [kind |-> "board", start |-> start, fullmove |-> fullmove, stack |-> stack]

ListObj(items) == [kind |-> "list", items |-> items]

DictObj(board, move_history, turn_count) ==
    [kind |-> "dict", board |-> board, move_history |-> move_history,
     turn_count |-> turn_count]

\* board.turn: "w" when white is to move
Turn(b) == IF (b.start = "w") = (Len(b.stack) % 2 = 0) THEN "w" ELSE "b"

\* create_board(fen)
create_board(fen) ==
    IF fen = NoPosition THEN BoardObj("w", 1, << >>)
                        ELSE BoardObj(fen.turn, fen.fullmove, << >>)

\* _get_turn_from_fen(fen): the sixth field of the FEN
get_turn_from_fen(fen) == IF fen = NoPosition THEN 1 ELSE fen.fullmove

GameInit ==
    /\ objs = [i \in ObjIds |-> FreeObj]
    /\ held = 0
    /\ HistIdle
    /\ input = None
    /\ result = None
    /\ ValIdle
    /\ SoloIdle
    /\ UiIdle

gameFrame == <<positions, current_index, heap, live, got, discarded,
               ghostVars, result, valVars, soloVars, uiVars>>

\* the store a call starts with: the caller has let go of the board a
\* direct call of apply_move returned before, and it is collected
Kept ==
    IF op = "apply_move" /\ ret.success
       THEN [objs EXCEPT ![ret.new_board] = FreeObj]
       ELSE objs

Boards == {i \in ObjIds : Kept[i].kind = "board"}
Games  == {i \in ObjIds : Kept[i].kind = "dict"}

\* what a call leaves behind: the object store and the value returned
Outcome(O, r) == [objs |-> O, ret |-> r]

\* the action's effect on the store and on the value returned
Returns(out) == objs' = out.objs /\ ret' = out.ret

\* the game dict of create_game, once its board and its list exist
first_game_dict(O, g, board, move_history, position) ==
    Outcome([O EXCEPT ![g] =
                DictObj(board, move_history,
                        IF position = NoPosition THEN 1
                                                 ELSE get_turn_from_fen(position))],
            g)

\* "move_history": []
first_game_list(O, l, board, position) ==
    first_game_dict([O EXCEPT ![l] = ListObj(<< >>)],
                    NewObj([O EXCEPT ![l] = ListObj(<< >>)]),
                    board, l, position)

\* board = create_board(position)
create_game_outcome(O, b, position) ==
    first_game_list([O EXCEPT ![b] = create_board(position)],
                    NewObj([O EXCEPT ![b] = create_board(position)]),
                    b, position)

create_game(position) ==
    /\ Cardinality(Games) < MaxGames
    /\ Returns(create_game_outcome(Kept, NewObj(Kept), position))
    /\ op' = "create_game"
    /\ held' = 0
    /\ input' = None
    /\ UNCHANGED gameFrame

\* faulty variant: the move is pushed on the board passed in
copy_target_Same(O, board) == board

\* new_board = board.copy(): a new object
copy_target(O, board) == NewObj(O)

\* new_board.push(move_object)
pushed(b, move_object) == [b EXCEPT !.stack = Append(@, move_object)]

\* validation_result.get("legal", True)
get_legal(v) == IF "legal" \in DOMAIN v THEN v.legal ELSE TRUE

\* apply_move from "if not validation_result["valid"]" on
apply_validated(O, board, v, push) ==
    IF ~v.valid
       THEN Outcome(O, [success |-> FALSE, error |-> v.error])
       ELSE IF ~get_legal(v)
               THEN Outcome(O, [success |-> FALSE, error |-> v.error])
               ELSE IF push = "raises"
                       \* the copy is dropped with the frame
                       THEN Outcome(O, [success |-> FALSE,
                                        error |-> <<"Failed to apply move: ", "push">>])
                       ELSE Outcome([O EXCEPT ![copy_target(O, board)] =
                                        pushed(O[board], v.move_object)],
                                    [success |-> TRUE,
                                     new_board |-> copy_target(O, board)])

\* apply_move(board, san_move)
apply_move_outcome(O, board, san_move, orc, push) ==
    apply_validated(O, board, validate_move(san_move, GoodFen, orc), push)

apply_move(board, san_move, orc, push) ==
    /\ Returns(apply_move_outcome(Kept, board, san_move, orc, push))
    /\ op' = "apply_move"
    /\ held' = board
    /\ input' = san_move
    /\ UNCHANGED gameFrame

\* the new_game dict, once its board and its list exist
new_game_dict(O, g, game, new_board, move_history) ==
    Outcome([O EXCEPT ![g] =
                DictObj(new_board, move_history,
                        O[game].turn_count +
                          (IF Turn(O[O[game].board]) = "w" THEN 1 ELSE 0))],
            [success |-> TRUE, new_game |-> g])

\* game["move_history"] + [san_move]: a new list
new_game_list(O, l, game, san_move, new_board) ==
    new_game_dict([O EXCEPT ![l] =
                      ListObj(Append(O[O[game].move_history].items, san_move))],
                  NewObj([O EXCEPT ![l] = ListObj(<< >>)]),
                  game, new_board, l)

\* make_move from "if not move_result["success"]" on
make_move_applied(game, san_move, move_result) ==
    IF ~move_result.ret.success
       THEN Outcome(move_result.objs,
                    [success |-> FALSE, error |-> move_result.ret.error])
       ELSE new_game_list(move_result.objs, NewObj(move_result.objs), game,
                          san_move, move_result.ret.new_board)

\* make_move(game, san_move)
make_move_outcome(O, game, san_move, orc, push) ==
    make_move_applied(game, san_move,
                      apply_move_outcome(O, O[game].board, san_move, orc, push))

make_move(game, san_move, orc, push) ==
    /\ Cardinality(Games) < MaxGames
    /\ Returns(make_move_outcome(Kept, game, san_move, orc, push))
    /\ op' = "make_move"
    /\ held' = game
    /\ input' = san_move
    /\ UNCHANGED gameFrame

\* get_legal_moves(game): the SAN of the moves the rules library finds legal
\* on the game's board
get_legal_moves(game, moves) ==
    /\ objs' = Kept
    /\ ret' = [moves |-> moves]
    /\ op' = "get_legal_moves"
    /\ held' = game
    /\ input' = None
    /\ UNCHANGED gameFrame

\* the move is one get_legal_moves has just listed for this game
Listed(game, san_move) ==
    op = "get_legal_moves" /\ held = game /\ san_move \in ret.moves

\* the rules library reads back the SAN it wrote: parse_san returns the
\* move it listed, and pushing that move does not raise
ListedOracle(game, san_move) ==
    IF Listed(game, san_move)
       THEN GameOracle(san_move) \ {[at |-> "parse_san", exc |-> "ValueError"]}
       ELSE GameOracle(san_move)

ListedPush(game, san_move, orc) ==
    IF Listed(game, san_move) THEN PushOutcomes(orc) \ {"raises"}
                              ELSE PushOutcomes(orc)

GameNext ==
    \/ \E position \in GamePositions : create_game(position)
    \/ \E game \in Games, moves \in SUBSET LibrarySans :
          get_legal_moves(game, moves)
    \/ \E board \in Boards, san_move \in GameSans :
          \E orc \in GameOracle(san_move) : \E push \in PushOutcomes(orc) :
             apply_move(board, san_move, orc, push)
    \/ \E game \in Games, san_move \in GameSans :
          \E orc \in ListedOracle(game, san_move) :
             \E push \in ListedPush(game, san_move, orc) :
                make_move(game, san_move, orc, push)

GameSpec == GameInit /\ [][GameNext]_vars

\* the position, side to move, history and turn count reachable from a
\* game or board reference in an object store
Observed(O, r) ==
    IF O[r].kind = "board"
       THEN [position |-> O[r], turn |-> Turn(O[r])]
       ELSE [position |-> O[O[r].board], turn |-> Turn(O[O[r].board]),
             move_history |-> O[O[r].move_history].items,
             turn_count |-> O[r].turn_count,
             board |-> O[r].board, list |-> O[r].move_history]

\* C16: make_move and apply_move never modify the game or board passed in:
\* after any call its position, side to move, move_history and turn_count
\* are as before (and so is every other object the call started with); a
\* failed call returns success=false with an error and no new_game/new_board;
\* a successful call returns a new state, and the new game's move_history is
\* the input's history with the played SAN appended.
C16_InputUntouched ==
    [][op' \in {"make_move", "apply_move"} =>
        /\ Observed(objs', held') = Observed(Kept, held')
        /\ \A i \in ObjIds : Kept[i] # FreeObj => objs'[i] = Kept[i]
        /\ ~ret'.success =>
              /\ DOMAIN ret' = {"success", "error"}
              /\ objs' = Kept
        /\ (ret'.success /\ op' = "apply_move") =>
              /\ DOMAIN ret' = {"success", "new_board"}
              /\ Kept[ret'.new_board] = FreeObj
              /\ objs'[ret'.new_board] =
                     pushed(Kept[held'], MoveObject(input'))
        /\ (ret'.success /\ op' = "make_move") =>
              /\ DOMAIN ret' = {"success", "new_game"}
              /\ Kept[ret'.new_game] = FreeObj
              /\ LET new == Observed(objs', ret'.new_game)
                     old == Observed(Kept, held')
                 IN /\ new.move_history = Append(old.move_history, input')
                    /\ new.position = pushed(old.position, MoveObject(input'))
                    /\ Kept[new.board] = FreeObj
                    /\ Kept[new.list] = FreeObj
    ]_vars

\* a second move has been made from a game that is still held: the game
\* passed in has one move in its history, the game returned has two
C16_Witness ==
    /\ op = "make_move"
    /\ ret.success
    /\ Len(Observed(objs, held).move_history) = 1
    /\ Len(Observed(objs, ret.new_game).move_history) = 2
    /\ Observed(objs, held).turn # Observed(objs, ret.new_game).turn

----------------------------------------------------------------------------
(* Promotion tokens *)

\* longest promotion token given to the parser
MaxPromoLen == 6

\* a destination, the promotion mark, a promotion piece, a letter that is no
\* promotion piece, a line feed and a decoration
PromoAlphabet == {"e", "8", "=", "N", "K", "\n", "#"}

PromoInit ==
    /\ \E n \in 0..MaxPromoLen : \E t \in [1..n -> PromoAlphabet] :
          input = StrInput(t)
    /\ result = Pending
    /\ HistIdle
    /\ ValIdle
    /\ SoloIdle
    /\ GameIdle
    /\ UiIdle

PromoSpec == PromoInit /\ [][ParseNext]_vars

\* the token without its check or checkmate mark
Undecorated ==
    IF endswith(Token, "#") \/ endswith(Token, "+") THEN DropLast(Token) ELSE Token

HasPromotionMark == \E i \in 1..Len(Undecorated) : Undecorated[i] = "="

\* the only '=' is followed by exactly one letter of Q, R, B, N, which ends
\* the token
PromotionMarkFinal ==
    /\ Len(Undecorated) >= 2
    /\ \A i \in 1..Len(Undecorated) :
          Undecorated[i] = "=" => i = Len(Undecorated) - 1
    /\ Undecorated[Len(Undecorated)] \in {"Q", "R", "B", "N"}

\* C21: a trailing '=P', P one of Q, R, B, N, is stripped and recorded as the
\* promotion piece; every token with a '=' that is not followed by exactly
\* one final letter of Q, R, B, N is rejected, so that a valid result with a
\* promotion comes from a well-formed promotion suffix only.
C21_PromotionSuffix ==
    (Returned /\ input.type = "str" /\ Token # << >>) =>
        /\ (HasPromotionMark /\ ~PromotionMarkFinal) => Rejected
        /\ (IsValid /\ HasPromotionMark) =>
              /\ Has("promotion")
              /\ result.promotion = promotion_names[Undecorated[Len(Undecorated)]]
        /\ (IsValid /\ ~HasPromotionMark) => ~Has("promotion")

----------------------------------------------------------------------------
(* The piece part *)

\* neither 'O-O' nor 'O-O-O' once the decoration is off
NotCastle ==
    Undecorated \notin {<<"O", "-", "O">>, <<"O", "-", "O", "-", "O">>}

CaptureParts == split(CoreToken, "x")

\* the token gets as far as "Validate destination square"
ReachesDestination ==
    /\ Returned
    /\ input.type = "str"
    /\ Token # << >>
    /\ NotCastle
    /\ HasCapture => Len(CaptureParts) = 2

\* piece_part and destination as lines 59-67 derive them
PiecePart ==
    IF HasCapture
       THEN CaptureParts[1]
       ELSE IF Len(CoreToken) > 2
               THEN SubSeq(CoreToken, 1, Len(CoreToken) - 2)
               ELSE << >>

DestinationPart ==
    IF HasCapture
       THEN CaptureParts[2]
       ELSE IF Len(CoreToken) > 2
               THEN SubSeq(CoreToken, Len(CoreToken) - 1, Len(CoreToken))
               ELSE CoreToken

PieceLetters == {"K", "Q", "R", "B", "N"}

PawnPart == PiecePart = << >> \/ (Len(PiecePart) = 1 /\ PiecePart[1] \in Files)
PieceLetterPart == Len(PiecePart) = 1 /\ PiecePart[1] \in PieceLetters

HasError(msg) == Rejected /\ Has("error") /\ result.error = msg

\* C22 as stated: empty -> pawn; one of K, Q, R, B, N -> that piece; a single
\* file letter -> pawn; any other piece part makes the parse fail with an
\* 'Invalid piece notation' error.
C22_PieceClassified ==
    ReachesDestination =>
        /\ (IsValid /\ PawnPart) => result.piece = "pawn"
        /\ (IsValid /\ PieceLetterPart) => result.piece = piece_names[PiecePart[1]]
        /\ (~PawnPart /\ ~PieceLetterPart) =>
               HasError(<<"Invalid piece notation: ", PiecePart>>)

\* C22 amended: the destination is validated first.  With a well-formed
\* destination the piece part decides: pawn, the piece of the letter, or the
\* 'Invalid piece notation' error; with any other destination the parse fails
\* with 'Invalid destination square', whatever the piece part.
C22_PieceClassifiedAfterDestination ==
    ReachesDestination =>
        IF destination_matches(DestinationPart)
           THEN /\ PawnPart => IsValid /\ result.piece = "pawn"
                /\ PieceLetterPart =>
                       IsValid /\ result.piece = piece_names[PiecePart[1]]
                /\ (~PawnPart /\ ~PieceLetterPart) =>
                       HasError(<<"Invalid piece notation: ", PiecePart>>)
           ELSE HasError(<<"Invalid destination square: ", DestinationPart>>)

\* 'NNe4': a good square behind a piece part of two letters
C22_Witness ==
    /\ input = StrInput(<<"N", "N", "e", "4">>)
    /\ HasError(<<"Invalid piece notation: ", <<"N", "N">>>>)

\* a piece letter, a file or rank qualifier and a destination square, with
\* or without 'x' between them: 'Nbd2', 'R1a3', 'Nbxd2'
Disambiguated ==
    /\ ReachesDestination
    /\ Len(PiecePart) = 2
    /\ PiecePart[1] \in PieceLetters
    /\ PiecePart[2] \in Files \cup Ranks
    /\ Len(DestinationPart) = 2
    /\ destination_matches(DestinationPart)

\* C23: a disambiguated piece move is accepted loosely: the parser returns
\* valid=true for it, not a syntax error.
C23_DisambiguationAccepted == Disambiguated => IsValid

----------------------------------------------------------------------------
(* turn_count *)

\* moves by black among those pushed on a board
BlackMoves(b) ==
    IF b.start = "w" THEN Len(b.stack) \div 2 ELSE (Len(b.stack) + 1) \div 2

\* the full-move number of the board's position, the sixth field of
\* board.fen(): it starts at the number of the starting position and goes up
\* after each move by black
FullMove(b) == b.fullmove + BlackMoves(b)

\* C24: the turn_count of every game state equals the full-move number of
\* its board position, for create_game(), create_game(position) and after
\* any sequence of successful make_move calls.
C24_TurnCountIsFullMove ==
    \A g \in ObjIds :
        objs[g].kind = "dict" => objs[g].turn_count = FullMove(objs[objs[g].board])

----------------------------------------------------------------------------
(* Legal moves *)

\* C26: every SAN string get_legal_moves(game) returns is accepted by
\* make_move(game, move) with success=true.
C26_ListedMovesAccepted ==
    [][(/\ op = "get_legal_moves"
        /\ op' = "make_move"
        /\ held' = held
        /\ input' \in ret.moves) => ret'.success
    ]_vars

----------------------------------------------------------------------------
(* SoundManager *)

\* the sounds play_move_sound chooses from
MoveSounds == {"checkmate", "check", "castle", "promotion", "capture", "move"}

MoveFlags == {"is_capture", "is_check", "is_checkmate", "is_castle", "is_promotion"}

\* pygame.mixer.init(), and sound.play(): done, or pygame.error
MixerOutcomes == {"ok", "pygame.error"}

NoFlags == [f \in MoveFlags |-> FALSE]

\* the object after __init__ / set_enabled: the mixer is initialised on
\* first enabling, a failure switches the sounds off, and the files found are
\* loaded
Manager(enabled, initialized, sounds) ==
    [enabled |-> enabled, initialized |-> initialized, sounds |-> sounds,
     flags |-> NoFlags, requested |-> << >>, played |-> << >>, raised |-> FALSE]

\* _initialize_pygame_mixer and _load_sounds
initialize_mixer(mixer, found) ==
    IF mixer = "ok" THEN Manager(TRUE, TRUE, found) ELSE Manager(FALSE, FALSE, {})

\* SoundManager(enabled)
SoundInit ==
    /\ \E enabled \in BOOLEAN, mixer \in MixerOutcomes, found \in SUBSET MoveSounds :
          sound = IF enabled THEN initialize_mixer(mixer, found)
                             ELSE Manager(FALSE, FALSE, {})
    /\ gui = << >>
    /\ dual = << >>
    /\ HistIdle
    /\ input = None
    /\ result = None
    /\ ValIdle
    /\ SoloIdle
    /\ GameIdle

soundFrame == <<positions, current_index, heap, live, got, discarded, ghostVars,
                parseVars, valVars, soloVars, gameVars, gui, dual>>

\* set_enabled(enabled)
set_enabled(enabled, mixer, found) ==
    /\ sound' =
          IF enabled /\ ~sound.initialized
             THEN initialize_mixer(mixer, found)
             ELSE [sound EXCEPT !.enabled = enabled, !.flags = NoFlags,
                                !.requested = << >>, !.played = << >>]
    /\ op' = "set_enabled"
    /\ ret' = None
    /\ UNCHANGED soundFrame

\* play_sound(sound_type): what is played, given what sound.play() does
play_sound_played(m, sound_type, play) ==
    IF ~m.enabled \/ ~m.initialized
       THEN << >>
       ELSE IF sound_type \notin m.sounds
               THEN << >>
               ELSE IF play = "ok" THEN <<sound_type>> ELSE << >>

\* faulty variant: a capture sounds before anything else
move_sound_CaptureFirst(flags) ==
    IF flags.is_capture THEN "capture"
    ELSE IF flags.is_checkmate THEN "checkmate"
    ELSE IF flags.is_check THEN "check"
    ELSE IF flags.is_castle THEN "castle"
    ELSE IF flags.is_promotion THEN "promotion"
    ELSE "move"

\* the if/elif chain of play_move_sound
move_sound(flags) ==
    IF flags.is_checkmate THEN "checkmate"
    ELSE IF flags.is_check THEN "check"
    ELSE IF flags.is_castle THEN "castle"
    ELSE IF flags.is_promotion THEN "promotion"
    ELSE IF flags.is_capture THEN "capture"
    ELSE "move"

play_move_sound(flags, play) ==
    /\ sound' = [sound EXCEPT
                    !.flags = flags,
                    !.requested = <<move_sound(flags)>>,
                    !.played = play_sound_played(sound, move_sound(flags), play),
                    \* pygame.error is caught in play_sound
                    !.raised = FALSE]
    /\ op' = "play_move_sound"
    /\ ret' = None
    /\ UNCHANGED soundFrame

SoundNext ==
    \/ \E enabled \in BOOLEAN, mixer \in MixerOutcomes, found \in SUBSET MoveSounds :
          set_enabled(enabled, mixer, found)
    \/ \E flags \in [MoveFlags -> BOOLEAN], play \in MixerOutcomes :
          play_move_sound(flags, play)

SoundSpec == SoundInit /\ [][SoundNext]_vars

\* the priority of the claim, highest first, and the flag behind each sound
Priority == <<"checkmate", "check", "castle", "promotion", "capture", "move">>

Applies(flags, name) ==
    CASE name = "checkmate" -> flags.is_checkmate
      [] name = "check"     -> flags.is_check
      [] name = "castle"    -> flags.is_castle
      [] name = "promotion" -> flags.is_promotion
      [] name = "capture"   -> flags.is_capture
      [] name = "move"      -> TRUE

\* the first sound of the priority whose flag is set
Chosen(flags) ==
    Priority[Min({i \in 1..Len(Priority) : Applies(flags, Priority[i])})]

\* C25: play_move_sound requests exactly one sound per call, the first of
\* checkmate > check > castle > promotion > capture > move whose flag was
\* passed, for every combination of the five flags; a sound is played only
\* if it was the one requested, and when the manager is disabled or
\* uninitialised no sound is played and nothing is raised.
C25_MoveSoundPriority ==
    op = "play_move_sound" =>
        /\ sound.requested = <<Chosen(sound.flags)>>
        /\ sound.played \in {<< >>, sound.requested}
        /\ (~sound.enabled \/ ~sound.initialized) =>
               sound.played = << >> /\ ~sound.raised

\* check played for a capturing check that is no mate
C25_Witness ==
    /\ op = "play_move_sound"
    /\ sound.flags.is_check
    /\ sound.flags.is_capture
    /\ sound.flags.is_promotion
    /\ ~sound.flags.is_checkmate
    /\ sound.played = <<"check">>

----------------------------------------------------------------------------
(* run_gui_game: one action is one iteration of the main loop.  The game   *)
(* dicts are objects of the store `heap`, `live` is the local `game`,      *)
(* positions/current_index are game_history, solo[1] is solo_state.        *)

\* a game is identified by the moves that led to it, read as a numeral in
\* base 3: digit 1 is a move after which play goes on, digit 2 a move that
\* ends the game
GameStart == 0

PlayOns == 1
Ends    == 2
GuiMoves == {PlayOns, Ends}

\* move_result['new_game'] of a successful make_move
after_move(v, m) == 3 * v + m

RECURSIVE Plies(_)
Plies(v) == IF v = 0 THEN 0 ELSE 1 + Plies(v \div 3)

\* get_game_status(game)['active']
Active(v) == v % 3 # Ends

\* get_current_player(game)
get_current_player(v) == IF Plies(v) % 2 = 0 THEN "white" ELSE "black"

Colours == {"white", "black"}

\* what handle_events returns other than None, a move or "quit"
Commands == {"eval", "best", "solo", "undo", "redo", "help"}

\* the objects run_gui_game works on
World ==
    [heap |-> heap, positions |-> positions, current_index |-> current_index,
     live |-> live]

Becomes(w) ==
    /\ heap' = w.heap
    /\ positions' = w.positions
    /\ current_index' = w.current_index
    /\ live' = w.live

\* game = move_result['new_game']: a new object, the old one is let go
rebound(w, id, v) ==
    [w EXCEPT !.heap = Collect([w.heap EXCEPT ![id] = v],
                               Range(w.positions) \cup {id}),
              !.live = id]

\* the copy add_position appends once the forward history is cut
appended(w, kept, h) ==
    [heap |-> deepcopy(h, w.live), positions |-> Append(kept, NewId(h)),
     current_index |-> Len(kept), live |-> w.live]

\* game_history.add_position(game)
recorded(w) ==
    appended(w, Truncated(w.positions, w.current_index),
             Collect(w.heap,
                     Range(Truncated(w.positions, w.current_index)) \cup {w.live}))

\* faulty variant: the new game is not pushed on the history
moved_NotRecorded(w, v) == rebound(w, NewId(w.heap), v)

\* a successful move: game = move_result['new_game'], then
\* game_history.add_position(game)
moved(w, v) == recorded(rebound(w, NewId(w.heap), v))

\* updated_game = get_current_position(game_history), returned to become
\* `game`: the stored object itself
restored(w, ci) ==
    [w EXCEPT !.current_index = ci,
              !.live = w.positions[ci + 1],
              !.heap = Collect(w.heap, Range(w.positions))]

GuiInit ==
    /\ \E human_color \in Colours : gui = [human_color |-> human_color, running |-> TRUE]
    \* game, and game_history.add_position(game)
    /\ heap = [i \in Ids |-> IF i \in {1, 2} THEN GameStart ELSE Free]
    /\ live = 1
    /\ positions = <<2>>
    /\ current_index = 0
    /\ solo = [i \in {1} |-> FALSE]
    /\ toggles = << >>
    /\ got = 0
    /\ op = "init"
    /\ ret = None
    /\ discarded = 0
    /\ phase = "add"
    /\ added = << >>
    /\ nUndo = 0
    /\ nRedo = 0
    /\ input = None
    /\ result = None
    /\ ValIdle
    /\ GameIdle
    /\ sound = << >>
    /\ dual = << >>

guiFrame == <<got, discarded, ghostVars, parseVars, valVars, toggles, gameVars,
              sound, dual>>

Game == heap[live]

\* faulty variant: solo mode is not looked at
ai_turn_IgnoresSolo == get_current_player(Game) # gui.human_color

\* should_use_ai(solo_state) and current_player != human_color
ai_turn == should_use_ai_value(1) /\ get_current_player(Game) # gui.human_color

\* the loop has ended: "quit", or the break after the AI's failed retries
Leaves(why) ==
    /\ gui' = [gui EXCEPT !.running = FALSE]
    /\ op' = why
    /\ ret' = None
    /\ UNCHANGED <<positions, current_index, heap, live, solo, guiFrame>>

\* what an iteration other than the last leaves in the ghost variables
Did(what, move_input, success) ==
    /\ op' = what
    /\ ret' = [move_input |-> move_input, success |-> success]
    /\ gui' = gui

\* the game is over: the event is read, and only "quit" is acted on
game_over(move_input) ==
    /\ gui.running
    /\ ~Active(Game)
    /\ IF move_input = "quit"
          THEN Leaves("quit")
          ELSE /\ Did("game_over", move_input, FALSE)
               /\ UNCHANGED <<positions, current_index, heap, live, solo, guiFrame>>

\* the AI branch: an event is read and dropped unless it is "quit", then
\* up to three tries of get_ai_move and make_move
ai_moves(move_input, m) ==
    /\ gui.running
    /\ Active(Game)
    /\ ai_turn
    /\ move_input # "quit"
    /\ current_index + 2 <= MaxHist
    /\ Becomes(moved(World, after_move(Game, m)))
    /\ Did("ai_move", move_input, TRUE)
    /\ UNCHANGED <<solo, guiFrame>>

ai_fails(move_input) ==
    /\ gui.running
    /\ Active(Game)
    /\ ai_turn
    /\ Leaves(IF move_input = "quit" THEN "quit" ELSE "ai_failed")

\* the human branch, a move: make_move succeeds
human_moves(m) ==
    /\ gui.running
    /\ Active(Game)
    /\ ~ai_turn
    /\ current_index + 2 <= MaxHist
    /\ Becomes(moved(World, after_move(Game, m)))
    /\ Did("human_move", "move", TRUE)
    /\ UNCHANGED <<solo, guiFrame>>

\* the human branch, a move make_move rejects
human_move_rejected ==
    /\ gui.running
    /\ Active(Game)
    /\ ~ai_turn
    /\ Did("human_move", "move", FALSE)
    /\ UNCHANGED <<positions, current_index, heap, live, solo, guiFrame>>

\* handle_learning_command: 'undo'
command_undo ==
    /\ IF can_undo_value /\ undo_guard
          THEN /\ Becomes(restored(World, current_index - 1))
               /\ Did("undo", "undo", TRUE)
          ELSE /\ Did("undo", "undo", FALSE)
               /\ UNCHANGED <<positions, current_index, heap, live>>
    /\ UNCHANGED <<solo, guiFrame>>

\* handle_learning_command: 'redo'
command_redo ==
    /\ IF can_redo_value /\ redo_guard
          THEN /\ Becomes(restored(World, current_index + 1))
               /\ Did("redo", "redo", TRUE)
          ELSE /\ Did("redo", "redo", FALSE)
               /\ UNCHANGED <<positions, current_index, heap, live>>
    /\ UNCHANGED <<solo, guiFrame>>

\* handle_learning_command: 'solo'
command_solo ==
    /\ solo' = [solo EXCEPT ![1] = toggled(solo[1])]
    /\ Did("solo", "solo", TRUE)
    /\ UNCHANGED <<positions, current_index, heap, live, guiFrame>>

\* handle_learning_command: 'eval', 'best', 'help' show something
command_shows(command) ==
    /\ Did(command, command, TRUE)
    /\ UNCHANGED <<positions, current_index, heap, live, solo, guiFrame>>

\* the human branch, a command or "quit"
human_commands(move_input) ==
    /\ gui.running
    /\ Active(Game)
    /\ ~ai_turn
    /\ CASE move_input = "quit" -> Leaves("quit")
         [] move_input = "undo" -> command_undo
         [] move_input = "redo" -> command_redo
         [] move_input = "solo" -> command_solo
         [] OTHER -> command_shows(move_input)

Events == Commands \cup {"quit", "move", "none"}

GuiNext ==
    \/ \E move_input \in Events : game_over(move_input)
    \/ \E move_input \in Events, m \in GuiMoves : ai_moves(move_input, m)
    \/ \E move_input \in Events : ai_fails(move_input)
    \/ \E m \in GuiMoves : human_moves(m)
    \/ human_move_rejected
    \/ \E move_input \in Commands \cup {"quit"} : human_commands(move_input)

GuiSpec == GuiInit /\ [][GuiNext]_vars

----------------------------------------------------------------------------
(* The live game and the history *)

\* the live game equals game_history.get_current()
Synced ==
    /\ get_current_value # None
    /\ Game = heap[positions[current_index + 1]]

SuccessfulMove == op' \in {"human_move", "ai_move"} /\ ret'.success

\* exactly one add_position of the new game: the history up to the cursor
\* is kept as it was and one entry, equal to the new game, follows it
OneAddPosition ==
    /\ current_index' = current_index + 1
    /\ Len(positions') = current_index + 2
    /\ SubSeq(positions', 1, current_index + 1) = Truncated(positions, current_index)
    /\ \A i \in 1..(current_index + 1) : heap'[positions[i]] = heap[positions[i]]
    /\ heap'[positions'[current_index' + 1]] = heap'[live']

\* C27: at the start of every iteration of run_gui_game's main loop the live
\* game equals the history's current snapshot; a successful human or AI move
\* is followed by exactly one add_position of the new game, a failed move
\* adds nothing, and a successful undo or redo makes the history's current
\* snapshot the live game.
C27_LiveGameIsCurrent ==
    [][/\ Synced
       /\ Synced'
       /\ SuccessfulMove => OneAddPosition
       /\ (op' = "human_move" /\ ~ret'.success) =>
              UNCHANGED <<positions, current_index, heap, live>>
       /\ (op' \in {"undo", "redo"} /\ ret'.success) =>
              /\ live' = positions'[current_index' + 1]
              /\ positions' = positions
              /\ current_index' # current_index]_vars

\* the AI has replied to the human's move: three snapshots, the last equal
\* to the live game
C27_Witness ==
    /\ op = "ai_move"
    /\ ret.success
    /\ current_index = 2
    /\ Len(positions) = 3
    /\ Game = heap[positions[3]]
    /\ Game # heap[positions[2]]

----------------------------------------------------------------------------
(* Undo in AI mode *)

\* the iteration that follows was not driven by the human: the AI branch
\* ran and handle_events had nothing to report
NoHumanInput ==
    \/ op' = "ai_failed"
    \/ op' = "ai_move" /\ ret'.move_input = "none"

\* C28: after a successful undo the game stays at the restored position,
\* the history cursor is unchanged and redo is available, until the human
\* issues the next command or move, in AI mode as in solo mode.
C28_UndoStaysUntilHumanActs ==
    [][(op = "undo" /\ ret.success /\ NoHumanInput) =>
           /\ heap'[live'] = Game
           /\ current_index' = current_index
           /\ can_redo_value']_vars

----------------------------------------------------------------------------
(* When the AI moves *)

\* the AI branch ran to get_ai_move
AiRequested == op' \in {"ai_move", "ai_failed"}

\* C29: an AI move is requested and applied only in an iteration where solo
\* mode is disabled, the game is active and the side to move is not the
\* human's colour; while solo mode is enabled every change of position comes
\* from a human move or an undo/redo; once the game is inactive nothing
\* changes the game or the history and only quit is handled.
C29_AiMovesOnlyOnItsTurn ==
    [][/\ AiRequested =>
              /\ ~is_solo_enabled_value(1)
              /\ Active(Game)
              /\ get_current_player(Game) # gui.human_color
       /\ (is_solo_enabled_value(1) /\ heap'[live'] # Game) =>
              op' \in {"human_move", "undo", "redo"}
       /\ ~Active(Game) =>
              /\ UNCHANGED <<positions, current_index, live, heap>>
              /\ op' \in {"game_over", "quit"}]_vars

\* in solo mode the human has moved for the AI's side and ended the game
C29_Witness ==
    /\ is_solo_enabled_value(1)
    /\ op = "human_move"
    /\ ret.success
    /\ get_current_player(Game) = gui.human_color
    /\ ~Active(Game)

----------------------------------------------------------------------------
(* run_dual_mode_game: the main thread, which runs                         *)
(* console_and_events_thread, and the thread of gui_thread.  `dual` holds  *)
(* shared_state, the lock, each thread's position and locals.  A `with     *)
(* shared_state['lock']` block is two steps: taking the lock, and the body *)
(* with the release.                                                       *)

\* successful moves the console thread publishes
MaxPublished == 2

Threads == {"console", "gui"}

\* last_game = None, current_game = None
NoGame == -1

\* the `with shared_state['lock']` statements of each thread
LockPoints ==
    [console |-> {"c_wait", "c_mark", "c_publish", "c_stop", "c_finally"},
     gui     |-> {"g_ready", "g_check", "g_take"}]

Inside(pc) ==
    CASE pc = "c_wait" -> "c_wait_in"
      [] pc = "c_mark" -> "c_mark_in"
      [] pc = "c_publish" -> "c_publish_in"
      [] pc = "c_stop" -> "c_stop_in"
      [] pc = "c_finally" -> "c_finally_in"
      [] pc = "g_ready" -> "g_ready_in"
      [] pc = "g_check" -> "g_check_in"
      [] pc = "g_take" -> "g_take_in"

DualInit ==
    /\ dual = [game |-> GameStart, running |-> TRUE, updated |-> TRUE,
               gui_ready |-> FALSE, lock |-> "free",
               pc |-> [console |-> "c_wait", gui |-> "g_ready"],
               current_game |-> [console |-> NoGame, gui |-> NoGame],
               last_game |-> NoGame, needs_update |-> FALSE,
               rendered |-> NoGame, unlocked |-> {}]
    /\ HistIdle
    /\ input = None
    /\ result = None
    /\ ValIdle
    /\ SoloIdle
    /\ GameIdle
    /\ sound = << >>
    /\ gui = << >>

dualFrame == <<positions, current_index, heap, live, got, discarded, ghostVars,
               parseVars, valVars, soloVars, gameVars, sound, gui>>

\* a thread's step: the ghost variables name it
Steps(t, what, d) ==
    /\ dual' = d
    /\ op' = what
    /\ ret' = [thread |-> t]
    /\ UNCHANGED dualFrame

\* thread t reads or writes the shared fields `fields`: the accesses made
\* without the lock are remembered
Access(d, t, fields) ==
    [d EXCEPT !.unlocked = @ \cup (IF d.lock = t THEN {}
                                   ELSE {<<t, f>> : f \in fields})]

\* leaving a `with` block
Released(d, t, pc) == [d EXCEPT !.lock = "free", !.pc[t] = pc]

\* with shared_state['lock']: entered when no thread holds it
acquire(t) ==
    /\ dual.pc[t] \in LockPoints[t]
    /\ dual.lock = "free"
    /\ Steps(t, "acquire", [dual EXCEPT !.lock = t, !.pc[t] = Inside(dual.pc[t])])

(* gui_thread *)

\* shared_state['gui_ready'] = True
gui_ready_set ==
    /\ dual.pc.gui = "g_ready_in"
    /\ Steps("gui", "gui_ready_set",
             Released([dual EXCEPT !.gui_ready = TRUE], "gui", "g_check"))

\* should_run = shared_state['running']; break when it is False
gui_check_running ==
    /\ dual.pc.gui = "g_check_in"
    /\ Steps("gui", "gui_check_running",
             Released(Access(dual, "gui", {"running"}), "gui",
                      IF dual.running THEN "g_take" ELSE "g_done"))

\* the shared game is taken and the flag cleared
taken(d) ==
    [d EXCEPT !.current_game.gui = d.game, !.updated = FALSE,
              !.needs_update = TRUE, !.last_game = d.game]

\* current_game = None; needs_update = False
not_taken(d) ==
    [d EXCEPT !.current_game.gui = NoGame, !.needs_update = FALSE]

\* if shared_state['updated'] or shared_state['game'] != last_game
gui_take ==
    /\ dual.pc.gui = "g_take_in"
    /\ Steps("gui", "gui_take",
             Released(Access(IF dual.updated \/ dual.game # dual.last_game
                                THEN taken(dual) ELSE not_taken(dual),
                             "gui", {"updated", "game"}),
                      "gui", "g_render"))

\* if needs_update and current_game: gui.render(current_game)
gui_render ==
    /\ dual.pc.gui = "g_render"
    /\ Steps("gui", "gui_render",
             [dual EXCEPT !.rendered = IF dual.needs_update /\ dual.current_game.gui # NoGame
                                          THEN dual.current_game.gui ELSE @,
                          !.pc.gui = "g_check"])

(* the main thread *)

\* the wait for gui_ready, which gives up after 50 rounds
main_wait(timeout) ==
    /\ dual.pc.console = "c_wait_in"
    /\ Steps("console", "main_wait",
             Released(dual, "console",
                      IF dual.gui_ready \/ timeout THEN "c_mark" ELSE "c_wait"))

\* shared_state['updated'] = True
main_mark ==
    /\ dual.pc.console = "c_mark_in"
    /\ Steps("console", "main_mark",
             Released(Access([dual EXCEPT !.updated = TRUE], "console", {"updated"}),
                      "console", "c_init"))

\* current_game = shared_state['game']
console_init ==
    /\ dual.pc.console = "c_init"
    /\ Steps("console", "console_init",
             Access([dual EXCEPT !.current_game.console = dual.game,
                                 !.pc.console = "c_loop"],
                    "console", {"game"}))

\* while shared_state['running']
console_loop ==
    /\ dual.pc.console = "c_loop"
    /\ Steps("console", "console_loop",
             Access([dual EXCEPT !.pc.console = IF dual.running THEN "c_turn" ELSE "c_finally"],
                    "console", {"running"}))

\* the window is closed, the user quits or interrupts, the AI fails
console_leaves ==
    /\ dual.pc.console = "c_turn"
    /\ Steps("console", "console_leaves", [dual EXCEPT !.pc.console = "c_stop"])

\* the game is over: break
console_game_over ==
    /\ dual.pc.console = "c_turn"
    /\ ~Active(dual.current_game.console)
    /\ Steps("console", "console_game_over", [dual EXCEPT !.pc.console = "c_finally"])

\* a move of the human or of the AI that make_move accepts
console_moves(m) ==
    /\ dual.pc.console = "c_turn"
    /\ Active(dual.current_game.console)
    /\ Plies(dual.current_game.console) < MaxPublished
    /\ Steps("console", "console_moves",
             [dual EXCEPT !.current_game.console = after_move(@, m),
                          !.pc.console = "c_publish"])

\* shared_state['game'] = current_game; shared_state['updated'] = True
console_publish ==
    /\ dual.pc.console = "c_publish_in"
    /\ Steps("console", "console_publish",
             Released(Access([dual EXCEPT !.game = dual.current_game.console,
                                          !.updated = TRUE],
                             "console", {"game", "updated"}),
                      "console", "c_loop"))

\* shared_state['running'] = False, in the console thread and in the
\* finally clause of run_dual_mode_game
console_stop ==
    /\ dual.pc.console \in {"c_stop_in", "c_finally_in"}
    /\ Steps("console", "console_stop",
             Released(Access([dual EXCEPT !.running = FALSE], "console", {"running"}),
                      "console",
                      IF dual.pc.console = "c_stop_in" THEN "c_finally" ELSE "c_done"))

GuiThread == gui_ready_set \/ gui_check_running \/ gui_take \/ gui_render

LockedSteps == main_mark \/ console_publish \/ console_stop

DualNext ==
    \/ \E t \in Threads : acquire(t)
    \/ GuiThread
    \/ \E timeout \in BOOLEAN : main_wait(timeout)
    \/ LockedSteps
    \/ console_init
    \/ console_loop
    \/ console_leaves
    \/ console_game_over
    \/ \E m \in GuiMoves : console_moves(m)

DualSpec == DualInit /\ [][DualNext]_vars

\* scheduling: a thread that is not waiting for input keeps running, a thread
\* inside a `with` block reaches its end, and a thread waiting for the lock
\* gets it when it is free again and again (the main thread sleeps between
\* two acquisitions).  Nothing forces the user to type.
DualFairSpec ==
    /\ DualSpec
    /\ WF_vars(GuiThread)
    /\ SF_vars(acquire("gui"))
    /\ WF_vars(LockedSteps)
    /\ WF_vars(\E timeout \in BOOLEAN : main_wait(timeout))

----------------------------------------------------------------------------
(* The lock *)

\* the games the console thread can publish
DualGames == 0..(3 ^ (MaxPublished + 1))

\* no thread has touched game, updated or running without the lock
NoUnlockedAccess == dual.unlocked = {}

\* the flag is cleared by the GUI thread, under the lock, together with
\* reading the game that is shared at that moment
ClearedWithRead ==
    (dual.updated /\ ~dual'.updated) =>
        /\ dual.lock = "gui"
        /\ dual'.game = dual.game
        /\ dual'.current_game.gui = dual.game
        /\ dual'.needs_update

\* a published game is taken for rendering, or superseded, or running is
\* cleared
PublishedTaken(v) ==
    (dual.game = v /\ dual.updated) ~>
        \/ dual.current_game.gui = v /\ dual.needs_update
        \/ dual.game # v
        \/ ~dual.running

GuiTerminates == ~dual.running ~> dual.pc.gui = "g_done"

\* C30: every read and write of the shared fields game, updated and running
\* by the console thread and the GUI thread is made while holding
\* shared_state['lock']; the updated flag is cleared only together with
\* reading the then-latest game; every published game is eventually taken by
\* the GUI thread unless it is superseded or running is cleared; after
\* running is cleared the GUI thread terminates.
C30_SharedStateUnderLock ==
    /\ []NoUnlockedAccess
    /\ [][ClearedWithRead]_vars
    /\ \A v \in DualGames : PublishedTaken(v)
    /\ GuiTerminates

====
